---- MODULE Spec2Model ----
(***************************************************************************)
(* A model of app.py of flask-MarineSustain: the module-level resources    *)
(* (model, df, geojson_data) loaded once at import, and the request        *)
(* handlers that read them (and, for the map endpoint, mutate the shared   *)
(* GeoJSON feature properties in place).                                   *)
(*                                                                         *)
(* Python strings are TLA+ strings; str.upper / str.lower / str.strip and  *)
(* int() / float() are computed character by character.  A dict is a       *)
(* sequence of <<key, value>> pairs in insertion order.  A pandas          *)
(* DataFrame is a sequence of row records in stored order.  A float is an  *)
(* exact rational [n, d]; d = 0 is NaN.                                    *)
(***************************************************************************)
EXTENDS Integers, Sequences, FiniteSets, TLC

VARIABLES
    model,          \* the classifier loaded at startup, or NoModel
    df,             \* the dataset: a sequence of rows
    geojson_data,   \* the shared boundary features: a sequence of property dicts
    req,            \* the last request handled: its endpoint and its arguments
    resp,           \* the response to it
    locals,         \* local variables of the last handler: the map join's, or the prediction
    repeated,       \* the last request repeated the one before it
    sameOutput,     \* ... and its response equalled the response before it
    thr,            \* per worker thread: position and locals of its map request
    overwritten     \* per worker thread: another thread overwrote a feature it had written

vars == <<model, df, geojson_data, req, resp, locals, repeated, sameOutput, thr, overwritten>>

(***************************************************************************)
(* Bounds of the model.                                                    *)
(***************************************************************************)
MaxRows == 2        \* rows of the dataset

(***************************************************************************)
(* Python str operations.                                                  *)
(***************************************************************************)
LowerLetters == <<"a","b","c","d","e","f","g","h","i","j","k","l","m",
                  "n","o","p","q","r","s","t","u","v","w","x","y","z">>
UpperLetters == <<"A","B","C","D","E","F","G","H","I","J","K","L","M",
                  "N","O","P","Q","R","S","T","U","V","W","X","Y","Z">>

IndexOf(c, letters) ==
    IF \E i \in DOMAIN letters : letters[i] = c
    THEN CHOOSE i \in DOMAIN letters : letters[i] = c
    ELSE 0

ToUpper == [c \in {LowerLetters[i] : i \in DOMAIN LowerLetters} |-> UpperLetters[IndexOf(c, LowerLetters)]]
ToLower == [c \in {UpperLetters[i] : i \in DOMAIN UpperLetters} |-> LowerLetters[IndexOf(c, UpperLetters)]]

UpperChar(c) == IF c \in DOMAIN ToUpper THEN ToUpper[c] ELSE c

LowerChar(c) == IF c \in DOMAIN ToLower THEN ToLower[c] ELSE c

RECURSIVE Upper(_)
Upper(s) == IF s = "" THEN "" ELSE UpperChar(Head(s)) \o Upper(Tail(s))

RECURSIVE Lower(_)
Lower(s) == IF s = "" THEN "" ELSE LowerChar(Head(s)) \o Lower(Tail(s))

RECURSIVE LStrip(_)
LStrip(s) == IF s # "" /\ Head(s) = " " THEN LStrip(Tail(s)) ELSE s

RECURSIVE RStrip(_)
RStrip(s) ==
    IF s # "" /\ SubSeq(s, Len(s), Len(s)) = " "
    THEN RStrip(SubSeq(s, 1, Len(s) - 1))
    ELSE s

Strip(s) == RStrip(LStrip(s))

\* `token in s`
Contains(s, token) ==
    \E i \in 1..(Len(s) - Len(token) + 1) : SubSeq(s, i, i + Len(token) - 1) = token

Digits == <<"0","1","2","3","4","5","6","7","8","9">>

DigitValue == [c \in {Digits[i] : i \in DOMAIN Digits} |-> IndexOf(c, Digits) - 1]

IsDigit(c) == c \in DOMAIN DigitValue

RECURSIVE AllDigits(_)
AllDigits(s) == s = "" \/ (IsDigit(Head(s)) /\ AllDigits(Tail(s)))

RECURSIVE DigitsValue(_)
DigitsValue(s) ==
    IF s = "" THEN 0
    ELSE 10 * DigitsValue(SubSeq(s, 1, Len(s) - 1))
         + DigitValue[SubSeq(s, Len(s), Len(s))]

\* int(s) of a str: surrounding whitespace is allowed, then decimal digits;
\* anything else raises ValueError (ok = FALSE)
ParseInt(s) ==
    LET t == Strip(s)
    IN  IF t # "" /\ AllDigits(t)
        THEN [ok |-> TRUE, val |-> DigitsValue(t)]
        ELSE [ok |-> FALSE, val |-> 0]

\* float(s) of a str: surrounding whitespace, digits with at most one "."
\* and at least one digit; anything else raises ValueError
ParseFloat(s) ==
    LET t == Strip(s)
        dots == {i \in 1..Len(t) : SubSeq(t, i, i) = "."}
        ok == /\ t # ""
              /\ Cardinality(dots) <= 1
              /\ \A i \in 1..Len(t) : i \in dots \/ IsDigit(SubSeq(t, i, i))
              /\ \E i \in 1..Len(t) : IsDigit(SubSeq(t, i, i))
    IN  [ok |-> ok]

(***************************************************************************)
(* request.args / the JSON payload: a function from the keys present to    *)
(* their string values.  args.get(k) is None when k is absent.             *)
(***************************************************************************)
Has(args, k) == k \in DOMAIN args

\* `x and x.strip()` for x = args.get(k)
Truthy(args, k) == Has(args, k) /\ args[k] # "" /\ Strip(args[k]) # ""

(***************************************************************************)
(* Floats as exact rationals.                                              *)
(***************************************************************************)
RECURSIVE GCD(_, _)
GCD(a, b) == IF b = 0 THEN a ELSE GCD(b, a % b)

Abs(x) == IF x < 0 THEN -x ELSE x

NaN == [n |-> 0, d |-> 0]

Rat(n, d) ==
    IF d = 0 THEN NaN
    ELSE LET g == GCD(Abs(n), Abs(d))
             s == IF d < 0 THEN -1 ELSE 1
         IN  [n |-> (s * n) \div g, d |-> (s * d) \div g]

IsNaN(q) == q.d = 0

RAdd(p, q) == IF IsNaN(p) \/ IsNaN(q) THEN NaN ELSE Rat(p.n * q.d + q.n * p.d, p.d * q.d)
RSub(p, q) == IF IsNaN(p) \/ IsNaN(q) THEN NaN ELSE Rat(p.n * q.d - q.n * p.d, p.d * q.d)
RMul(p, q) == IF IsNaN(p) \/ IsNaN(q) THEN NaN ELSE Rat(p.n * q.n, p.d * q.d)
\* q is never zero where the code divides
RDiv(p, q) == IF IsNaN(p) \/ IsNaN(q) THEN NaN ELSE Rat(p.n * q.d, p.d * q.n)

\* bool(x) of a float: only 0.0 is falsy; NaN is truthy
FloatTruthy(q) == IsNaN(q) \/ q.n # 0

\* round(x, 2): to the nearest hundredth, ties to even; NaN stays NaN
Round2(q) ==
    IF IsNaN(q) THEN NaN
    ELSE LET num == q.n * 100
             fl == num \div q.d
             twice == 2 * (num - fl * q.d)
             k == IF twice > q.d \/ (twice = q.d /\ fl % 2 = 1) THEN fl + 1 ELSE fl
         IN  Rat(k, 100)

RECURSIVE SumSeq(_)
SumSeq(s) == IF s = <<>> THEN 0 ELSE Head(s) + SumSeq(Tail(s))

\* Series.mean(): NaN for an empty series
Mean(s) == IF s = <<>> THEN NaN ELSE Rat(SumSeq(s), Len(s))

(***************************************************************************)
(* The resources on disk and their loading.                                *)
(***************************************************************************)
NoModel == "None"
Classifier == "model_stok_ikan"

\* the labels the classifier can return
StatusLabels == {"UNDERFISHING", "OVERFISHING"}

\* joblib.load may raise; then the model is None
safe_load_model(loaded) == IF loaded THEN Classifier ELSE NoModel

\* rows a CSV file may hold, as written in the file
CsvRows == {
    [Tahun |-> 2, Provinsi |-> "Aceh", Kelompok_Ikan |-> "Tuna", Catch |-> 100,
     TP_C |-> 2, TP_E |-> 2, Status |-> "OVERFISHING"],
    [Tahun |-> 2, Provinsi |-> "ACEH", Kelompok_Ikan |-> "Sarden", Catch |-> 50,
     TP_C |-> 1, TP_E |-> 2, Status |-> "UNDERFISHING"],
    [Tahun |-> 1, Provinsi |-> "Aceh", Kelompok_Ikan |-> "Tuna", Catch |-> 1000,
     TP_C |-> 0, TP_E |-> 0, Status |-> "UNCERTAIN"],
    [Tahun |-> 1, Provinsi |-> "Bali", Kelompok_Ikan |-> "Sarden", Catch |-> 1500,
     TP_C |-> 1, TP_E |-> 1, Status |-> "GROWTH OVERFISHING"] }

\* the CSV files: up to MaxRows distinct rows in any order; no row at all
\* stands for a missing or unreadable file, which loads as an empty DataFrame
CsvFiles ==
    {f \in UNION {[1..n -> CsvRows] : n \in 0..MaxRows} :
        \A i, j \in DOMAIN f : i # j => f[i] # f[j]}

safe_load_csv(file) == file

\* df["Provinsi"] = df["Provinsi"].astype(str).str.upper()
NormalizeDf(d) == [i \in DOMAIN d |-> [d[i] EXCEPT !.Provinsi = Upper(d[i].Provinsi)]]

\* a dict literal
Dict(pairs) == pairs

\* the boundary files: each feature is its "properties" dict
GeoJsonFiles == {
    << Dict(<< <<"NAME_1", "Aceh">> >>), Dict(<< <<"NAME_1", "BALI">> >>) >>,
    << Dict(<< <<"id", "11">>, <<"name", " Aceh">> >>), Dict(<< <<"Provinsi", "Bali">> >>),
       Dict(<< <<"KODE", "51">> >>) >>,
    << >> }

safe_load_geojson(file) == file

(***************************************************************************)
(* DataFrame helpers.                                                      *)
(***************************************************************************)
IsEmpty(d) == Len(d) = 0

RECURSIVE Unique(_)
\* Series.unique(): the distinct values in order of first appearance
Unique(s) ==
    IF s = <<>> THEN <<>>
    ELSE LET init == Unique(SubSeq(s, 1, Len(s) - 1))
             last == s[Len(s)]
         IN  IF \E i \in DOMAIN init : init[i] = last THEN init ELSE Append(init, last)

\* df[column] as a Series
ColTahun(d) == [i \in DOMAIN d |-> d[i].Tahun]
ColKelompokIkan(d) == [i \in DOMAIN d |-> d[i].Kelompok_Ikan]
ColTP_C(d) == [i \in DOMAIN d |-> d[i].TP_C]
ColTP_E(d) == [i \in DOMAIN d |-> d[i].TP_E]
ColCatch(d) == [i \in DOMAIN d |-> d[i].Catch]

RECURSIVE MaxSeq(_)
MaxSeq(s) ==
    IF Len(s) = 1 THEN s[1]
    ELSE LET m == MaxSeq(Tail(s)) IN IF s[1] >= m THEN s[1] ELSE m

(***************************************************************************)
(* GET /api/dashboard-populasi                                             *)
(***************************************************************************)
\* df_dashboard[["TP_C", "TP_E"]].mean(axis=1)
Populasi(r) == Rat(r.TP_C + r.TP_E, 2)

DashFilterTahun(d, args) ==
    IF Truthy(args, "tahun")
    THEN IF ParseInt(args["tahun"]).ok
         THEN SelectSeq(d, LAMBDA r : r.Tahun = ParseInt(args["tahun"]).val)
         ELSE d
    ELSE d

\* faulty variant: the filter value is compared as typed, without .upper()
DashFilterProvinsi_NoUpper(d, args) ==
    IF Truthy(args, "provinsi")
    THEN SelectSeq(d, LAMBDA r : r.Provinsi = args["provinsi"])
    ELSE d

DashFilterProvinsi(d, args) ==
    IF Truthy(args, "provinsi")
    THEN SelectSeq(d, LAMBDA r : r.Provinsi = Upper(args["provinsi"]))
    ELSE d

DashFilterIkan(d, args) ==
    IF Truthy(args, "ikan")
    THEN SelectSeq(d, LAMBDA r : r.Kelompok_Ikan = args["ikan"])
    ELSE d

DashRecords(d) ==
    [i \in DOMAIN d |->
        [tahun |-> d[i].Tahun, kelompok_ikan |-> d[i].Kelompok_Ikan,
         provinsi |-> d[i].Provinsi, populasi |-> Populasi(d[i])]]

dashboard_populasi(d, args) ==
    IF IsEmpty(d) THEN <<>>
    ELSE DashRecords(DashFilterIkan(DashFilterProvinsi(DashFilterTahun(d, args), args), args))

(***************************************************************************)
(* GET /api/card-infoekologi                                               *)
(***************************************************************************)
MaxCards == 5

FishRows(d, ikan) == SelectSeq(d, LAMBDA r : r.Kelompok_Ikan = ikan)

\* (mean of TP_C + mean of TP_E) / 2 over the rows of one fish group
PopOf(d, ikan) ==
    RDiv(RAdd(Mean(ColTP_C(FishRows(d, ikan))), Mean(ColTP_E(FishRows(d, ikan)))),
         Rat(2, 1))

\* ((pop_now - pop_prev) / pop_prev) * 100 if pop_prev else 0
Trend(pop_now, pop_prev) ==
    IF FloatTruthy(pop_prev)
    THEN RMul(RDiv(RSub(pop_now, pop_prev), pop_prev), Rat(100, 1))
    ELSE Rat(0, 1)

Card(df_latest, df_prev, ikan) ==
    [nama |-> ikan,
     populasi |-> Round2(PopOf(df_latest, ikan)),
     tren |-> Round2(Trend(PopOf(df_latest, ikan), PopOf(df_prev, ikan))),
     status |-> FishRows(df_latest, ikan)[1].Status]

card_infoekologi(d) ==
    IF IsEmpty(d) THEN <<>>
    ELSE LET latest_year == MaxSeq(ColTahun(d))
             df_latest == SelectSeq(d, LAMBDA r : r.Tahun = latest_year)
             df_prev == SelectSeq(d, LAMBDA r : r.Tahun = latest_year - 1)
             fish == Unique(ColKelompokIkan(df_latest))
             first == SubSeq(fish, 1, IF Len(fish) < MaxCards THEN Len(fish) ELSE MaxCards)
         IN  [i \in DOMAIN first |-> Card(df_latest, df_prev, first[i])]

(***************************************************************************)
(* Python dict operations on a sequence of <<key, value>> pairs.           *)
(***************************************************************************)
DictHas(d, k) == \E i \in DOMAIN d : d[i][1] = k

\* d.get(k, default)
DictGet(d, k, default) ==
    IF DictHas(d, k) THEN d[CHOOSE i \in DOMAIN d : d[i][1] = k][2] ELSE default

\* d[k] = v: an existing key keeps its place, a new key goes last
DictSet(d, k, v) ==
    IF DictHas(d, k)
    THEN [i \in DOMAIN d |-> IF d[i][1] = k THEN <<k, v>> ELSE d[i]]
    ELSE Append(d, <<k, v>>)

DictKeys(d) == [i \in DOMAIN d |-> d[i][1]]

(***************************************************************************)
(* detect_prov_property_key                                                *)
(***************************************************************************)
ProvTokens == {"prov", "provinsi", "name", "nama"}

IsCandidateKey(k) ==
    \E k_low \in {Lower(k)} : \E token \in ProvTokens : Contains(k_low, token)

RECURSIVE CandidateKeys(_)
\* every candidate key of every feature, in the order the two loops visit them
CandidateKeys(features) ==
    IF features = <<>> THEN <<>>
    ELSE SelectSeq(DictKeys(Head(features)), IsCandidateKey) \o CandidateKeys(Tail(features))

CountOf(s, k) == Cardinality({i \in DOMAIN s : s[i] = k})

\* max(candidates, key=candidates.get): the first key, in insertion order of
\* `candidates`, among those with the largest count
MaxByCount(candidates, visited) ==
    candidates[CHOOSE i \in DOMAIN candidates :
        /\ \A j \in DOMAIN candidates :
              CountOf(visited, candidates[j]) <= CountOf(visited, candidates[i])
        /\ \A j \in 1..(i - 1) :
              CountOf(visited, candidates[j]) < CountOf(visited, candidates[i])]

CandidatesOf(visited) ==
    IF visited = <<>> THEN <<>> ELSE <<MaxByCount(Unique(visited), visited)>>

\* <<>> is None
detect_prov_property_key(features) ==
    CHOOSE key \in {CandidatesOf(visited) : visited \in {CandidateKeys(features)}} : TRUE

(***************************************************************************)
(* GET /api/peta-kepatuhan                                                 *)
(***************************************************************************)
NoResourceHtml == "<p>Data peta atau dataset tidak tersedia.</p>"
NoDataHtml == "<p>Tidak ada data untuk filter ini.</p>"
NoDataStatus == "Tidak ada Data"
NoDataInfo == "Tidak ada data ikan untuk filter ini."
NeutralColor == "#dcdcdc"

status_colors ==
    ("UNDERFISHING" :> "#2ecc71") @@ ("UNCERTAIN" :> "#95a5a6") @@
    ("DATA DEFICIENT" :> "#95a5a6") @@ ("OVERFISHING" :> "#e74c3c") @@
    ("GROWTH OVERFISHING" :> "#f1c40f") @@ ("RECRUITMENT OVERFISHING" :> "#e67e22")

\* faulty variant: a tahun that does not parse empties the frame instead of being skipped
PetaFilterTahun_EmptyOnError(d, args) ==
    IF Truthy(args, "tahun")
    THEN IF ParseInt(args["tahun"]).ok
         THEN SelectSeq(d, LAMBDA r : r.Tahun = ParseInt(args["tahun"]).val)
         ELSE <<>>
    ELSE d

PetaFilterTahun(d, args) ==
    IF Truthy(args, "tahun")
    THEN IF ParseInt(args["tahun"]).ok
         THEN SelectSeq(d, LAMBDA r : r.Tahun = ParseInt(args["tahun"]).val)
         ELSE d
    ELSE d

PetaFilterProvinsi(d, args) ==
    IF Truthy(args, "provinsi")
    THEN SelectSeq(d, LAMBDA r : r.Provinsi = Upper(args["provinsi"]))
    ELSE d

PetaFilterIkan(d, args) ==
    IF Truthy(args, "ikan")
    THEN SelectSeq(d, LAMBDA r : r.Kelompok_Ikan = args["ikan"])
    ELSE d

peta_filtered(d, args) ==
    PetaFilterIkan(PetaFilterProvinsi(PetaFilterTahun(NormalizeDf(d), args), args), args)

\* three decimal digits, zero padded
Pad3(n) == IF n < 10 THEN "00" \o ToString(n) ELSE IF n < 100 THEN "0" \o ToString(n) ELSE ToString(n)

RECURSIVE FormatThousands(_)
\* f"{n:,}" of a non-negative whole number
FormatThousands(n) ==
    IF n < 1000 THEN ToString(n)
    ELSE FormatThousands(n \div 1000) \o "," \o Pad3(n % 1000)

InfoLine(r) ==
    r.Kelompok_Ikan \o ": " \o FormatThousands(r.Catch) \o " ton (" \o r.Status \o ")"

RECURSIVE JoinBr(_)
\* "<br>".join(rows)
JoinBr(rows) ==
    IF rows = <<>> THEN ""
    ELSE IF Len(rows) = 1 THEN rows[1]
    ELSE rows[1] \o "<br>" \o JoinBr(Tail(rows))

TotalLine(total) == "<br><br><b>Total tangkapan: " \o FormatThousands(total) \o " ton</b>"

build_info_text(subdf) ==
    JoinBr([i \in DOMAIN subdf |-> InfoLine(subdf[i])]) \o TotalLine(SumSeq(ColCatch(subdf)))

\* the groups of df.groupby("Provinsi"): each keeps its rows in stored order
GroupKeys(d) == {d[i].Provinsi : i \in DOMAIN d}
\* faulty variant: the summary of a province is built from all filtered rows
Group_AllRows(d, prov) == d

Group(d, prov) == SelectSeq(d, LAMBDA r : r.Provinsi = prov)

\* df_filtered.groupby("Provinsi").apply(build_info_text).to_dict()
df_summary_of(df_filtered) ==
    [prov \in GroupKeys(df_filtered) |-> build_info_text(Group(df_filtered, prov))]

\* df_filtered.groupby("Provinsi")["Status"].first().to_dict()
prov_status_of(df_filtered) ==
    [prov \in GroupKeys(df_filtered) |-> Group(df_filtered, prov)[1].Status]

\* detect_prov_property_key(...) or "Provinsi"
prop_key_of(features) ==
    LET k == detect_prov_property_key(features)
    IN  IF k = <<>> THEN "Provinsi" ELSE k[1]

\* what the loop body reads as the province name of one feature
ReadName(props, prop_key) == DictGet(props, prop_key, DictGet(props, "Provinsi", ""))

\* faulty variant: the info text is appended to the one the feature already holds
FeatureValues_Accumulate(props, prop_key, prov_status, df_summary) ==
    LET prov_name == Upper(ReadName(props, prop_key))
        status == IF prov_name \in DOMAIN prov_status THEN prov_status[prov_name] ELSE NoDataStatus
        info == IF prov_name \in DOMAIN df_summary THEN df_summary[prov_name] ELSE NoDataInfo
        warna == IF Upper(status) \in DOMAIN status_colors
                 THEN status_colors[Upper(status)] ELSE NeutralColor
    IN  [Provinsi |-> prov_name, Status |-> status,
         info_ikan |-> DictGet(props, "info_ikan", "") \o info, warna |-> warna]

\* prov_name, status, info, warna of one feature
FeatureValues(props, prop_key, prov_status, df_summary) ==
    LET prov_name == Upper(ReadName(props, prop_key))
        status == IF prov_name \in DOMAIN prov_status THEN prov_status[prov_name] ELSE NoDataStatus
        info == IF prov_name \in DOMAIN df_summary THEN df_summary[prov_name] ELSE NoDataInfo
        warna == IF Upper(status) \in DOMAIN status_colors
                 THEN status_colors[Upper(status)] ELSE NeutralColor
    IN  [Provinsi |-> prov_name, Status |-> status, info_ikan |-> info, warna |-> warna]

\* faulty variant: props.setdefault(key, value): a key already present keeps its value
AttachProps_SetDefault(props, v) ==
    LET SetDefault(d, k, x) == IF DictHas(d, k) THEN d ELSE Append(d, <<k, x>>)
    IN  SetDefault(SetDefault(SetDefault(SetDefault(props, "Provinsi", v.Provinsi),
                                         "Status", v.Status), "info_ikan", v.info_ikan),
                   "warna", v.warna)

\* props["Provinsi"] = ...; props["Status"] = ...; props["info_ikan"] = ...; props["warna"] = ...
AttachProps(props, v) ==
    DictSet(DictSet(DictSet(DictSet(props, "Provinsi", v.Provinsi),
                            "Status", v.Status), "info_ikan", v.info_ikan), "warna", v.warna)

\* faulty variant: only the features of a province with data are updated
AttachAll_SkipUnmatched(features, prop_key, prov_status, df_summary) ==
    [i \in DOMAIN features |->
        IF Upper(ReadName(features[i], prop_key)) \in DOMAIN prov_status
        THEN AttachProps(features[i],
                         FeatureValues(features[i], prop_key, prov_status, df_summary))
        ELSE features[i]]

\* the loop over geojson_data["features"]
AttachAll(features, prop_key, prov_status, df_summary) ==
    [i \in DOMAIN features |->
        AttachProps(features[i], FeatureValues(features[i], prop_key, prov_status, df_summary))]

NoLocals == [joined |-> FALSE]

\* a return before the join: the shared features are not touched
PetaEarly(html) ==
    [joined |-> FALSE, json |-> [html |-> html, features |-> <<>>], locals |-> NoLocals]

\* lines 236-281: detect the key, attach to every feature, render the map.
\* folium.GeoJson embeds the feature collection as the loop left it.
PetaJoin(df_filtered, features, df_summary, prov_status, prop_key) ==
    [joined |-> TRUE,
     json |-> [html |-> "map",
               features |-> AttachAll(features, prop_key, prov_status, df_summary)],
     locals |-> [joined |-> TRUE,
                 df_filtered |-> df_filtered,
                 df_summary |-> df_summary,
                 prov_status |-> prov_status,
                 prop_key |-> prop_key,
                 names |-> [i \in DOMAIN features |-> ReadName(features[i], prop_key)]]]

\* lines 211-234, each local evaluated once
PetaSummarise(df_filtered, features) ==
    IF IsEmpty(df_filtered) THEN PetaEarly(NoDataHtml)
    ELSE CHOOSE out \in {PetaJoin(df_filtered, features, df_summary, prov_status, prop_key) :
                            df_summary \in {df_summary_of(df_filtered)},
                            prov_status \in {prov_status_of(df_filtered)},
                            prop_key \in {prop_key_of(features)}} : TRUE

\* the handler as a function of the resources and the query arguments
peta_kepatuhan(d, features, args) ==
    IF IsEmpty(d) \/ features = <<>> THEN PetaEarly(NoResourceHtml)
    ELSE CHOOSE out \in {PetaSummarise(df_filtered, features) :
                            df_filtered \in {peta_filtered(d, args)}} : TRUE

(***************************************************************************)
(* POST /api/predict-overfishing                                           *)
(***************************************************************************)
NumericFields == {"effort", "cpue", "catch", "tp_c", "tp_e"}

\* float(data.get(k, 0)) does not raise
FloatOk(data, k) == Has(data, k) => ParseFloat(data[k]).ok

\* int(tahun) does not raise: int(None) is a TypeError
TahunOk(data) == Has(data, "tahun") /\ ParseInt(data["tahun"]).ok

\* data.get(k): <<>> is None
Echo(data, k) == IF Has(data, k) THEN <<data[k]>> ELSE <<>>

ErrorResponse(message) ==
    [status_code |-> 500, json |-> [status |-> "error", message |-> message]]

\* faulty variant: the model-unavailable answer is returned without its 500
predict_overfishing_NoStatusCode(body, label) ==
    IF ~body.is_dict THEN ErrorResponse("request body is not a JSON object")
    ELSE IF \E k \in NumericFields : ~FloatOk(body.data, k)
    THEN ErrorResponse("could not convert string to float")
    ELSE IF ~TahunOk(body.data) THEN ErrorResponse("invalid literal for int()")
    ELSE IF model = NoModel
    THEN [status_code |-> 200,
          json |-> [status |-> "error", message |-> "Model tidak tersedia di server."]]
    ELSE [status_code |-> 200,
          json |-> [status |-> "success", prediction |-> label,
                    tahun |-> Echo(body.data, "tahun"),
                    provinsi |-> Echo(body.data, "provinsi"),
                    kelompok_ikan |-> Echo(body.data, "kelompok_ikan")]]

\* body.is_dict is FALSE when get_json raises or yields something without .get;
\* label is what model.predict returns for the row
predict_overfishing(body, label) ==
    IF ~body.is_dict THEN ErrorResponse("request body is not a JSON object")
    ELSE IF \E k \in NumericFields : ~FloatOk(body.data, k)
    THEN ErrorResponse("could not convert string to float")
    ELSE IF ~TahunOk(body.data) THEN ErrorResponse("invalid literal for int()")
    ELSE IF model = NoModel THEN ErrorResponse("Model tidak tersedia di server.")
    ELSE [status_code |-> 200,
          json |-> [status |-> "success", prediction |-> label,
                    tahun |-> Echo(body.data, "tahun"),
                    provinsi |-> Echo(body.data, "provinsi"),
                    kelompok_ikan |-> Echo(body.data, "kelompok_ikan")]]

(***************************************************************************)
(* The requests the clients send.                                          *)
(***************************************************************************)
\* an optional value: <<>> when the key is absent
Opt(values) == {<<>>} \cup {<<v>> : v \in values}

\* the mapping with the keys whose option is present
MkArgs(opts) ==
    [k \in {k \in DOMAIN opts : opts[k] # <<>>} |-> opts[k][1]]

TahunValues == {"", "2", "x"}
ProvinsiValues == {" ", "aceh"}
IkanValues == {"Tuna"}

QueryArgs ==
    {MkArgs([tahun |-> t, provinsi |-> p, ikan |-> i]) :
        t \in Opt(TahunValues), p \in Opt(ProvinsiValues), i \in Opt(IkanValues)}

Payloads ==
    {[is_dict |-> FALSE, data |-> <<>>]} \cup
    {[is_dict |-> TRUE,
      data |-> MkArgs([tahun |-> t, provinsi |-> p, kelompok_ikan |-> <<"Tuna">>,
                       effort |-> e, cpue |-> <<c>>, catch |-> <<"10">>,
                       tp_c |-> <<"1">>, tp_e |-> <<x>>])] :
        t \in Opt({"2", " 2 ", "x"}), p \in Opt({"Aceh"}),
        e \in Opt({"1.5", "abc"}), c \in {"2", ""}, x \in {"1", "1.2.3"}}

(***************************************************************************)
(* State after import of app.py.                                           *)
(***************************************************************************)
Threads == {1, 2}

IdleThread == [pc |-> "idle"]

InitRequests ==
    /\ req = [endpoint |-> "none", args |-> <<>>]
    /\ resp = [status_code |-> 0, json |-> <<>>]
    /\ locals = NoLocals
    /\ repeated = FALSE
    /\ sameOutput = FALSE
    /\ thr = [t \in Threads |-> IdleThread]
    /\ overwritten = [t \in Threads |-> FALSE]

\* the GET endpoints never read the model
Init ==
    /\ model = safe_load_model(TRUE)
    /\ df \in {NormalizeDf(safe_load_csv(f)) : f \in CsvFiles}
    /\ geojson_data \in {safe_load_geojson(f) : f \in GeoJsonFiles}
    /\ InitRequests

\* the prediction endpoint reads neither the dataset nor the boundary features
InitPredict ==
    /\ model \in {safe_load_model(b) : b \in BOOLEAN}
    /\ df = <<>>
    /\ geojson_data = <<>>
    /\ InitRequests

(***************************************************************************)
(* The handlers, one request at a time.                                    *)
(***************************************************************************)
\* bookkeeping of every handled request
Answer(r, out) ==
    /\ req' = r
    /\ resp' = out
    /\ repeated' = (r = req)
    /\ sameOutput' = (r = req /\ out = resp)

OkResponse(json) == [status_code |-> 200, json |-> json]

ApiDashboardPopulasi ==
    \E args \in QueryArgs :
        /\ Answer([endpoint |-> "dashboard-populasi", args |-> args],
                  OkResponse(dashboard_populasi(df, args)))
        /\ locals' = NoLocals
        /\ UNCHANGED <<model, df, geojson_data, thr, overwritten>>

ApiCardInfoekologi ==
    /\ Answer([endpoint |-> "card-infoekologi", args |-> <<>>],
              OkResponse(card_infoekologi(df)))
    /\ locals' = NoLocals
    /\ UNCHANGED <<model, df, geojson_data, thr, overwritten>>

ApiPetaKepatuhan ==
    \E args \in QueryArgs :
        \E out \in {peta_kepatuhan(df, geojson_data, args)} :
            /\ geojson_data' = IF out.joined THEN out.json.features ELSE geojson_data
            /\ locals' = out.locals
            /\ Answer([endpoint |-> "peta-kepatuhan", args |-> args], OkResponse(out.json))
            /\ UNCHANGED <<model, df, thr, overwritten>>

PredictOverfishing ==
    \E body \in Payloads, label \in StatusLabels :
        /\ Answer([endpoint |-> "predict-overfishing", args |-> body],
                  predict_overfishing(body, label))
        \* pred[0], when model.predict was reached
        /\ locals' = IF predict_overfishing(body, label).status_code = 200
                     THEN [joined |-> FALSE, pred |-> label] ELSE NoLocals
        /\ UNCHANGED <<model, df, geojson_data, thr, overwritten>>

Next ==
    \/ ApiDashboardPopulasi
    \/ ApiCardInfoekologi
    \/ ApiPetaKepatuhan

Spec == Init /\ [][Next]_vars

PredictSpec == InitPredict /\ [][PredictOverfishing]_vars

(***************************************************************************)
(* GET /api/peta-kepatuhan handled by worker threads that share            *)
(* geojson_data: the handler split at the points where it reads or writes  *)
(* the shared features.                                                    *)
(***************************************************************************)
\* the filters the concurrent clients send
ConcArgs == {a \in QueryArgs : ~Has(a, "tahun") /\ \A k \in DOMAIN a : Truthy(a, k)}

InitConc ==
    /\ model = safe_load_model(TRUE)
    /\ df \in {NormalizeDf(safe_load_csv(f)) : f \in {g \in CsvFiles : Len(g) >= 1}}
    /\ geojson_data \in {safe_load_geojson(f) : f \in {g \in GeoJsonFiles : Len(g) = 2}}
    /\ InitRequests

\* the four injected properties as the feature holds them now
Injected(props) ==
    [Provinsi |-> DictGet(props, "Provinsi", ""), Status |-> DictGet(props, "Status", ""),
     info_ikan |-> DictGet(props, "info_ikan", ""), warna |-> DictGet(props, "warna", "")]

\* lines 188-237: read the arguments, filter, summarise, detect the key
Begin(t) ==
    /\ thr[t].pc = "idle"
    /\ \E args \in ConcArgs :
          IF IsEmpty(df) \/ geojson_data = <<>>
          THEN thr' = [thr EXCEPT ![t] = [pc |-> "done", args |-> args, joined |-> FALSE,
                                          html |-> NoResourceHtml]]
          ELSE \E df_filtered \in {peta_filtered(df, args)} :
                  IF IsEmpty(df_filtered)
                  THEN thr' = [thr EXCEPT ![t] = [pc |-> "done", args |-> args,
                                                  joined |-> FALSE, html |-> NoDataHtml]]
                  ELSE thr' = [thr EXCEPT ![t] =
                                  [pc |-> "attach", args |-> args, joined |-> TRUE,
                                   df_summary |-> df_summary_of(df_filtered),
                                   prov_status |-> prov_status_of(df_filtered),
                                   prop_key |-> prop_key_of(geojson_data),
                                   i |-> 1, own |-> <<>>]]
    /\ overwritten' = [overwritten EXCEPT ![t] = FALSE]
    /\ UNCHANGED <<model, df, geojson_data, req, resp, locals, repeated, sameOutput>>

\* lines 240-250: one iteration of the loop over the shared features
AttachStep(t) ==
    /\ thr[t].pc = "attach"
    /\ \E v \in {FeatureValues(geojson_data[thr[t].i], thr[t].prop_key,
                               thr[t].prov_status, thr[t].df_summary)} :
          /\ geojson_data' = [geojson_data EXCEPT ![thr[t].i] = AttachProps(@, v)]
          /\ thr' = [thr EXCEPT ![t].own = Append(@, v),
                                ![t].i = @ + 1,
                                ![t].pc = IF thr[t].i = Len(geojson_data)
                                          THEN "render" ELSE "attach"]
    /\ overwritten' =
          [q \in Threads |->
              IF q # t /\ thr[q].pc \in {"attach", "render"} /\ thr[q].i > thr[t].i
              THEN TRUE ELSE overwritten[q]]
    /\ UNCHANGED <<model, df, req, resp, locals, repeated, sameOutput>>

\* lines 253-281: folium.GeoJson embeds the shared feature collection as it is now
Render(t) ==
    /\ thr[t].pc = "render"
    /\ thr' = [thr EXCEPT ![t] = [pc |-> "done", args |-> thr[t].args, joined |-> TRUE,
                                  own |-> thr[t].own,
                                  html |-> [i \in DOMAIN geojson_data |->
                                              Injected(geojson_data[i])]]]
    /\ UNCHANGED <<model, df, geojson_data, req, resp, locals, repeated, sameOutput,
                   overwritten>>

\* the response is sent; the worker takes the next request
Finish(t) ==
    /\ thr[t].pc = "done"
    /\ thr' = [thr EXCEPT ![t] = IdleThread]
    /\ UNCHANGED <<model, df, geojson_data, req, resp, locals, repeated, sameOutput,
                   overwritten>>

NextConc == \E t \in Threads : Begin(t) \/ AttachStep(t) \/ Render(t) \/ Finish(t)

ConcSpec == InitConc /\ [][NextConc]_vars

(***************************************************************************)
(* Vocabulary of the properties.                                           *)
(***************************************************************************)
\* a filter is supplied when its parameter is present and not blank
Supplied(args, k) == Has(args, k) /\ Strip(args[k]) # ""

\* the arguments without one key
Without(args, k) == [j \in DOMAIN args \ {k} |-> args[j]]

\* the record matches every supplied filter
MatchesFilters(r, args) ==
    /\ Supplied(args, "tahun") => r.Tahun = ParseInt(args["tahun"]).val
    /\ Supplied(args, "provinsi") => Upper(r.Provinsi) = Upper(args["provinsi"])
    /\ Supplied(args, "ikan") => r.Kelompok_Ikan = args["ikan"]

\* a set of positions as a sequence in increasing order
RECURSIVE Ascending(_)
Ascending(S) ==
    IF S = {} THEN <<>>
    ELSE LET m == CHOOSE x \in S : \A y \in S : x <= y
         IN  <<m>> \o Ascending(S \ {m})

IsDashboard == req.endpoint = "dashboard-populasi"
IsPeta == req.endpoint = "peta-kepatuhan"
IsCard == req.endpoint = "card-infoekologi"
IsPredict == req.endpoint = "predict-overfishing"

\* C1: GET /api/dashboard-populasi on a non-empty dataset, with tahun absent,
\* blank or a parseable integer, returns exactly one row for each dataset
\* record that matches all supplied filters (year equal, province equal
\* case-insensitively, fish group equal), and no other row; with no filter
\* supplied, one row per dataset record.
C1_DashboardRowsMatchFilters ==
    (IsDashboard /\ ~IsEmpty(df)
        /\ (Supplied(req.args, "tahun") => ParseInt(req.args["tahun"]).ok))
    => LET match == Ascending({i \in DOMAIN df : MatchesFilters(df[i], req.args)})
           rows == resp.json
       IN  /\ Len(rows) = Len(match)
           /\ \A k \in DOMAIN rows :
                 /\ rows[k].tahun = df[match[k]].Tahun
                 /\ rows[k].kelompok_ikan = df[match[k]].Kelompok_Ikan
                 /\ rows[k].provinsi = df[match[k]].Provinsi
           /\ (\A k \in {"tahun", "provinsi", "ikan"} : ~Supplied(req.args, k))
                 => Len(rows) = Len(df)

\* a year and a lower-case province are supplied and select some, not all, rows
C1_Witness ==
    /\ IsDashboard
    /\ Supplied(req.args, "tahun") /\ ParseInt(req.args["tahun"]).ok
    /\ Supplied(req.args, "provinsi") /\ req.args["provinsi"] # Upper(req.args["provinsi"])
    /\ Len(resp.json) >= 1
    /\ Len(resp.json) < Len(df)

\* the status and the color the claim expects for a normalized province name
SummaryStatus(d, prov) == d[Ascending({i \in DOMAIN d : d[i].Provinsi = prov})[1]].Status

ProvincesOf(d) == {d[i].Provinsi : i \in DOMAIN d}

\* C2: after a map request that reaches the join step, every feature whose
\* province-name property, trimmed and uppercased, equals a province of the
\* filtered records has that province's summary status and its static color;
\* every other feature has "Tidak ada Data", the no-data info and #dcdcdc.
C2_JoinTrimsAndUppercases ==
    (IsPeta /\ locals.joined)
    => \A i \in DOMAIN geojson_data :
          LET name == Upper(Strip(locals.names[i]))
              got == [Status |-> DictGet(geojson_data[i], "Status", ""),
                      info_ikan |-> DictGet(geojson_data[i], "info_ikan", ""),
                      warna |-> DictGet(geojson_data[i], "warna", "")]
          IN  IF name \in ProvincesOf(locals.df_filtered)
              THEN /\ got.Status = SummaryStatus(locals.df_filtered, name)
                   /\ got.warna = status_colors[got.Status]
              ELSE /\ got.Status = NoDataStatus
                   /\ got.info_ikan = NoDataInfo
                   /\ got.warna = NeutralColor

\* a payload whose required numeric fields cannot all be parsed
Unparseable(body) ==
    /\ body.is_dict
    /\ \/ \E k \in NumericFields : ~FloatOk(body.data, k)
       \/ ~TahunOk(body.data)

WellFormed(body) ==
    /\ body.is_dict
    /\ \A k \in NumericFields : FloatOk(body.data, k)
    /\ TahunOk(body.data)

\* C3: a prediction request whose required numeric fields cannot be parsed
\* is answered with status "error" and a 4xx code, model loaded or not.
C3_UnparseableIsClientError ==
    (IsPredict /\ Unparseable(req.args))
    => /\ resp.json.status = "error"
       /\ resp.status_code >= 400
       /\ resp.status_code < 500

\* C4: with no model loaded every prediction request is answered with
\* status "error" and a 5xx code; with a model and a well-formed payload the
\* answer is "success" and echoes tahun, provinsi, kelompok_ikan and the
\* classifier's label.
C4_ModelUnavailableOrSuccess ==
    IsPredict
    => /\ model = NoModel
          => /\ resp.json.status = "error"
             /\ resp.status_code >= 500
             /\ resp.status_code < 600
       /\ (model # NoModel /\ WellFormed(req.args))
          => /\ resp.json.status = "success"
             /\ resp.json.tahun = <<req.args.data["tahun"]>>
             /\ resp.json.provinsi = Echo(req.args.data, "provinsi")
             /\ resp.json.kelompok_ikan = Echo(req.args.data, "kelompok_ikan")
             /\ resp.json.prediction = locals.pred
             /\ resp.json.prediction \in StatusLabels

\* no model, and a payload that would otherwise succeed
C4_Witness ==
    /\ IsPredict
    /\ model = NoModel
    /\ WellFormed(req.args)
    /\ resp.json.status = "error"
    /\ resp.status_code = 500

\* the previous-year population estimate of a fish group, as the claim
\* defines it: over the records of year (latest - 1) of that group
LatestYear == MaxSeq(ColTahun(df))
PrevRecords(ikan) ==
    SelectSeq(df, LAMBDA r : r.Tahun = LatestYear - 1 /\ r.Kelompok_Ikan = ikan)
NowRecords(ikan) ==
    SelectSeq(df, LAMBDA r : r.Tahun = LatestYear /\ r.Kelompok_Ikan = ikan)
Estimate(rows) ==
    Rat(SumSeq(ColTP_C(rows)) + SumSeq(ColTP_E(rows)), 2 * Len(rows))

\* C5: a card's tren is exactly 0 when the previous-year estimate of its fish
\* group is zero or there is no previous-year record of it; otherwise it is
\* (current - previous) / previous * 100 (to two decimals).
C5_TrendZeroWhenPreviousZeroOrAbsent ==
    IsCard
    => \A k \in DOMAIN resp.json :
          LET card == resp.json[k]
              prev == PrevRecords(card.nama)
              now == NowRecords(card.nama)
          IN  IF prev = <<>> \/ Estimate(prev).n = 0
              THEN card.tren = Rat(0, 1)
              ELSE card.tren =
                     Round2(RMul(RDiv(RSub(Estimate(now), Estimate(prev)), Estimate(prev)),
                                 Rat(100, 1)))

\* C6: repeating the same request with no change in between yields the same
\* output; for the map the properties injected by the second request equal
\* those injected by the first.
C6_RepeatedRequestSameOutput == repeated => sameOutput

\* a map request repeated after the first one changed the detected key
C6_Witness ==
    /\ IsPeta
    /\ repeated
    /\ locals.joined
    /\ locals.prop_key = "Provinsi"
    /\ \E i \in DOMAIN geojson_data : DictGet(geojson_data[i], "Status", "") # NoDataStatus

\* C7: in the dashboard and the map endpoint a tahun that fails to parse as
\* an integer is ignored: the response is that of the same request without
\* tahun, the other filters still applied.
C7_UnparseableTahunIgnored ==
    [][ ( /\ Has(req'.args, "tahun")
          /\ req'.endpoint \in {"dashboard-populasi", "peta-kepatuhan"}
          /\ ~ParseInt(req'.args["tahun"]).ok )
        => /\ resp'.status_code = 200
           /\ req'.endpoint = "dashboard-populasi"
                => resp'.json = dashboard_populasi(df, Without(req'.args, "tahun"))
           /\ req'.endpoint = "peta-kepatuhan"
                => resp'.json = peta_kepatuhan(df, geojson_data, Without(req'.args, "tahun")).json
      ]_vars

\* a map drawn for an unparseable tahun with the province filter applied
C7_Witness ==
    /\ IsPeta
    /\ Has(req.args, "tahun") /\ ~ParseInt(req.args["tahun"]).ok
    /\ Supplied(req.args, "provinsi")
    /\ locals.joined
    /\ Len(locals.df_filtered) < Len(df)

RECURSIVE ExpectedLines(_, _)
\* one line per record of the province, in stored order, joined by <br>
ExpectedLines(d, prov) ==
    IF d = <<>> THEN ""
    ELSE LET rest == ExpectedLines(Tail(d), prov)
         IN  IF Head(d).Provinsi # prov THEN rest
             ELSE InfoLine(Head(d)) \o (IF rest = "" THEN "" ELSE "<br>" \o rest)

RECURSIVE ExpectedTotal(_, _)
ExpectedTotal(d, prov) ==
    IF d = <<>> THEN 0
    ELSE (IF Head(d).Provinsi = prov THEN Head(d).Catch ELSE 0) + ExpectedTotal(Tail(d), prov)

\* C8: for every province of the filtered records the info text holds one
\* line "{fish-group}: {catch} ton ({status})" per filtered record of that
\* province, in stored order, then a total line with the sum of their catch;
\* records of other provinces contribute nothing.
C8_InfoTextPerProvince ==
    (IsPeta /\ locals.joined)
    => /\ DOMAIN locals.df_summary = ProvincesOf(locals.df_filtered)
       /\ \A prov \in ProvincesOf(locals.df_filtered) :
             locals.df_summary[prov] =
                ExpectedLines(locals.df_filtered, prov)
                \o TotalLine(ExpectedTotal(locals.df_filtered, prov))

\* the example of the specification: two records of ACEH, total 150
C8_Witness ==
    /\ IsPeta
    /\ locals.joined
    /\ "ACEH" \in DOMAIN locals.df_summary
    /\ locals.df_summary["ACEH"] =
          "Tuna: 100 ton (OVERFISHING)<br>Sarden: 50 ton (UNDERFISHING)"
          \o "<br><br><b>Total tangkapan: 150 ton</b>"

\* C9: a response is rendered only from the properties its own request
\* computed, as long as no other request overwrote a feature between this
\* request's write of it and its rendering; under interleaving the
\* rendering can hold another request's values (the witness).
C9_OwnValuesUnlessOverwritten ==
    \A t \in Threads :
        (thr[t].pc = "done" /\ thr[t].joined /\ ~overwritten[t])
        => thr[t].html = thr[t].own

\* a finished request whose map holds a value computed by the other thread
C9_Witness ==
    \E t \in Threads, q \in Threads :
        /\ t # q
        /\ thr[t].pc = "done" /\ thr[t].joined
        /\ thr[q].pc \in {"attach", "render", "done"} /\ thr[q].joined
        /\ thr[q].args # thr[t].args
        /\ \E i \in DOMAIN thr[t].html :
              /\ thr[t].html[i] # thr[t].own[i]
              /\ i \in DOMAIN thr[q].own
              /\ thr[t].html[i] = thr[q].own[i]

\* what a map request with these arguments computes for a province name
ExpectedInjected(args, prov) ==
    LET d == peta_filtered(df, args)
    IN  IF prov \in ProvincesOf(d)
        THEN [Provinsi |-> prov,
              Status |-> SummaryStatus(d, prov),
              info_ikan |-> ExpectedLines(d, prov) \o TotalLine(ExpectedTotal(d, prov)),
              warna |-> status_colors[SummaryStatus(d, prov)]]
        ELSE [Provinsi |-> prov, Status |-> NoDataStatus, info_ikan |-> NoDataInfo,
              warna |-> NeutralColor]

\* C10 as stated: once any map request completes, no feature holds a value
\* left over from an earlier request, also when the request's filters
\* exclude all rows.
C10_NoLeftoverAfterAnyRequest ==
    (IsPeta /\ ~IsEmpty(df))
    => \A i \in DOMAIN geojson_data :
          DictHas(geojson_data[i], "Status")
          => Injected(geojson_data[i])
               = ExpectedInjected(req.args, DictGet(geojson_data[i], "Provinsi", ""))

\* C10 as amended: once a map request that reaches the join step completes
\* (requests handled one at a time), the Provinsi, Status, info_ikan and warna
\* of every feature are the ones this request's filters give.
C10_RecomputedWhenJoined ==
    (IsPeta /\ locals.joined)
    => \A i \in DOMAIN geojson_data :
          /\ \A k \in {"Provinsi", "Status", "info_ikan", "warna"} : DictHas(geojson_data[i], k)
          /\ Injected(geojson_data[i])
               = ExpectedInjected(req.args, DictGet(geojson_data[i], "Provinsi", ""))

\* a joining request that found the properties of an earlier one in place
\* (only an earlier injection makes "Provinsi" the detected key)
C10_Witness ==
    /\ IsPeta
    /\ locals.joined
    /\ ~repeated
    /\ locals.prop_key = "Provinsi"
    /\ \E i \in DOMAIN geojson_data : DictGet(geojson_data[i], "Status", "") = NoDataStatus
    /\ \E i \in DOMAIN geojson_data : DictGet(geojson_data[i], "Status", "") # NoDataStatus

====
